---- MODULE Spec2Model ----
(***************************************************************************)
(* Model of openelex/us/nv/load.py: the Nevada result loaders.             *)
(*                                                                         *)
(* Text is modelled by TLA+ strings; the Python string methods the code    *)
(* uses (split, strip, upper, replace, the `in` substring test, int) are   *)
(* operators that compute on the characters as Python does.  A Python      *)
(* value that is either None or a string is <<>> or <<s>>.                 *)
(***************************************************************************)
EXTENDS Integers, Sequences, FiniteSets, TLC

VARIABLES pc, mapping, loader, common_kwargs, rows, skipped, results, inserted, error, arg, ret

vars == <<pc, mapping, loader, common_kwargs, rows, skipped, results, inserted, error, arg, ret>>

(***************************************************************************)
(* Bounds.                                                                 *)
(***************************************************************************)
\* the longest input file the model reads, in rows
MaxRows == 2

(***************************************************************************)
(* Python values.                                                          *)
(***************************************************************************)
None == <<>>

Some(s) == <<s>>

IntVal(n) == [kind |-> "int", val |-> n]

StrVal(s) == [kind |-> "str", str |-> s]

(***************************************************************************)
(* Python string methods.                                                  *)
(***************************************************************************)
Char(s, i) == SubSeq(s, i, i)

Whitespace == {" ", "\t"}

LowerCase == "abcdefghijklmnopqrstuvwxyz"

UpperCase == "ABCDEFGHIJKLMNOPQRSTUVWXYZ"

Digits == "0123456789"

\* the position of character c in the alphabet, 0 when it is not in it
IndexIn(alphabet, c) ==
    IF \E i \in 1..Len(alphabet) : Char(alphabet, i) = c
    THEN CHOOSE i \in 1..Len(alphabet) : Char(alphabet, i) = c
    ELSE 0

\* s.strip()
Strip(s) ==
    LET keep == {i \in 1..Len(s) : Char(s, i) \notin Whitespace}
    IN  IF keep = {} THEN ""
        ELSE SubSeq(s, CHOOSE i \in keep : \A j \in keep : i <= j,
                       CHOOSE i \in keep : \A j \in keep : i >= j)

UpperChar(c) ==
    IF IndexIn(LowerCase, c) > 0 THEN Char(UpperCase, IndexIn(LowerCase, c)) ELSE c

LowerChar(c) ==
    IF IndexIn(UpperCase, c) > 0 THEN Char(LowerCase, IndexIn(UpperCase, c)) ELSE c

RECURSIVE Upper(_)
\* s.upper()
Upper(s) == IF s = "" THEN "" ELSE UpperChar(Char(s, 1)) \o Upper(SubSeq(s, 2, Len(s)))

\* the first position at which sub occurs in s, 0 when it does not occur
Find(s, sub) ==
    LET at == {i \in 1..(Len(s) - Len(sub) + 1) : SubSeq(s, i, i + Len(sub) - 1) = sub}
    IN  IF at = {} THEN 0 ELSE CHOOSE i \in at : \A j \in at : i <= j

\* sub in s
Contains(s, sub) == Find(s, sub) > 0

RECURSIVE Split(_, _)
\* s.split(sep), sep not empty
Split(s, sep) ==
    LET i == Find(s, sep)
    IN  IF i = 0 THEN <<s>>
        ELSE <<SubSeq(s, 1, i - 1)>> \o Split(SubSeq(s, i + Len(sep), Len(s)), sep)

RECURSIVE Join(_, _)
\* sep.join(parts)
Join(parts, sep) ==
    IF Len(parts) = 0 THEN ""
    ELSE IF Len(parts) = 1 THEN parts[1]
    ELSE parts[1] \o sep \o Join(Tail(parts), sep)

\* s.replace(old, new)
Replace(s, old, new) == Join(Split(s, old), new)

RECURSIVE DigitsValue(_)
DigitsValue(s) ==
    IF s = "" THEN 0
    ELSE 10 * DigitsValue(SubSeq(s, 1, Len(s) - 1)) + (IndexIn(Digits, Char(s, Len(s))) - 1)

IsDigits(s) == Len(s) > 0 /\ \A i \in 1..Len(s) : IndexIn(Digits, Char(s, i)) > 0

\* int(s): surrounding whitespace and one leading sign are accepted, anything
\* else than decimal digits raises ValueError
ParseInt(s) ==
    LET t    == Strip(s)
        sign == IF Len(t) > 0 /\ Char(t, 1) \in {"+", "-"} THEN Char(t, 1) ELSE ""
        body == IF sign = "" THEN t ELSE SubSeq(t, 2, Len(t))
    IN  IF IsDigits(body)
        THEN [exc |-> "None", val |-> IF sign = "-" THEN 0 - DigitsValue(body) ELSE DigitsValue(body)]
        ELSE [exc |-> "ValueError"]

(***************************************************************************)
(* Inputs.                                                                 *)
(***************************************************************************)
\* the mapping entries LoadResults.run is given
Mappings ==
    { [election |-> e, raw_url |-> u[1], pre_processed_url |-> u[2],
       ocd_id |-> "ocd-division/country:us/state:nv/county:clark", name |-> "Clark"] :
      e \in {"nv-2012-06-12-primary", "nv-2012-11-06-general"},
      u \in { <<"", "20120612__nv__primary__clark__precinct.csv">>,
              <<"", "20120612__nv__primary__clark.csv">>,
              <<"http://silverstateelection.com/results.xml", "">> } }

Row(o, c, v, p, pa) == [office |-> o, candidate |-> c, votes |-> v, precinct |-> p, party |-> pa]

\* office texts assembled from a name, a district segment and a party suffix
OfficeNames == {"GOVERNOR", "Governor", "STATE SENATE", "MAYOR"}

OfficeLeads == {"", " "}

OfficeMiddles == {"", ",", ", DISTRICT 5", " DISTRICT 5", ",DISTRICT 5", ", DISTRICT 5, SEAT A"}

OfficeSuffixes == {"", " (DEM)", " ( DEM )", "(DEM) "}

Offices ==
    { l \o n \o m \o s : l \in OfficeLeads, n \in OfficeNames,
                         m \in OfficeMiddles, s \in OfficeSuffixes }

\* the rows a results file of the model is made of
FileOffices ==
    { "GOVERNOR (DEM)", "GOVERNOR", " Governor ", "GOVERNOR,", "GOVERNOR, (DEM)",
      "STATE SENATE, DISTRICT 5", "STATE SENATE, DISTRICT 5 (DEM)",
      "STATE SENATE DISTRICT 5 (DEM)", "STATE SENATE, DISTRICT 5, SEAT A",
      "STATE SENATE,DISTRICT 5", "state assembly, district 12 (REP)",
      "MAYOR", "MAYOR, DISTRICT 5" }

FileVotes == {"", " ", "1,234", "-5", "12x", " 7 "}

FileRows ==
    { Row(o, "Jane Doe", "4,500", "Ward 3", "DEM") : o \in FileOffices }
    \cup { Row(o, "John Roe", v, "Ward 3", "") :
           o \in {"GOVERNOR", "STATE SENATE, DISTRICT 5", "STATE SENATE, DISTRICT 5 (DEM)"},
           v \in FileVotes }
    \cup { Row(o, " Jane Doe ", "12", " Ward 3\t", pa) :
           o \in {"GOVERNOR", "STATE SENATE, DISTRICT 5 (DEM)"},
           pa \in {"&nbsp;", " REP "} }

\* the rows the methods are called on directly
CallRows == { Row(o, "Jane Doe", "4,500", "Ward 3", "DEM") : o \in Offices }

(***************************************************************************)
(* NVBaseLoader.                                                           *)
(***************************************************************************)
target_offices ==
    { "PRESIDENT AND VICE PRESIDENT OF THE UNITED STATES",
      "PRESIDENT",
      "UNITED STATES SENATOR",
      "U.S. REPRESENTATIVE IN CONGRESS",
      "GOVERNOR",
      "LIEUTENANT GOVERNOR",
      "SECRETARY OF STATE",
      "STATE TREASURER",
      "STATE CONTROLLER",
      "ATTORNEY GENERAL",
      "STATE SENATE",
      "STATE ASSEMBLY" }

\* NVBaseLoader._skip_row
BaseSkipRow(row) == FALSE

\* the primary branch of _build_contest_kwargs; a subscript past the end of
\* a split raises IndexError
PrimaryContestKwargs(row) ==
    LET o       == row.office
        office  == Strip(Split(Split(o, "(")[1], ", ")[1])
        parens  == Split(Strip(o), "(")
        commas  == Split(o, ", ")
    IN  IF Len(parens) < 2 THEN [exc |-> "IndexError"]
        ELSE LET primary_party == Split(parens[2], ")")[1]
             IN  IF Contains(Upper(o), "DISTRICT")
                 THEN IF Len(commas) < 2 THEN [exc |-> "IndexError"]
                      ELSE [exc |-> "None", office |-> office,
                            district |-> Some(Strip(Split(commas[2], " (")[1])),
                            primary_party |-> Some(primary_party),
                            party |-> Some(primary_party)]
                 ELSE [exc |-> "None", office |-> office, district |-> None,
                       primary_party |-> Some(primary_party),
                       party |-> Some(primary_party)]

\* the other branch of _build_contest_kwargs
GeneralContestKwargs(row) ==
    LET o      == row.office
        commas == Split(o, ", ")
    IN  IF Contains(Upper(o), "DISTRICT")
        THEN IF Len(commas) < 2 THEN [exc |-> "IndexError"]
             ELSE [exc |-> "None", office |-> Strip(commas[1]),
                   district |-> Some(Strip(commas[2])),
                   primary_party |-> None, party |-> None]
        ELSE [exc |-> "None", office |-> Strip(o), district |-> None,
              primary_party |-> None, party |-> None]

\* NVBaseLoader._build_contest_kwargs, self.mapping being m
BuildContestKwargs(m, row) ==
    IF Contains(m.election, "primary") THEN PrimaryContestKwargs(row)
    ELSE GeneralContestKwargs(row)

\* NVBaseLoader._build_candidate_kwargs
BuildCandidateKwargs(row) == [full_name |-> Strip(row.candidate)]

RECURSIVE OcdChars(_)
OcdChars(s) ==
    IF s = "" THEN ""
    ELSE LET c == LowerChar(Char(s, 1))
             d == IF c \in Whitespace THEN "_"
                  ELSE IF IndexIn(LowerCase \o Digits \o "._~-", c) > 0 THEN c
                  ELSE "~"
         IN  d \o OcdChars(SubSeq(s, 2, Len(s)))

\* openelex.lib.text.ocd_type_id
ocd_type_id(text) == OcdChars(text)

(***************************************************************************)
(* NVPrecinctLoader.                                                       *)
(***************************************************************************)
\* _skip_row cutting the office at ", " as _build_contest_kwargs does
PrecinctSkipRowCommaSpace(row) ==
    Upper(Strip(Split(row.office, ", ")[1])) \notin target_offices

\* NVPrecinctLoader._skip_row
PrecinctSkipRow(row) == Upper(Strip(Split(row.office, ",")[1])) \notin target_offices

\* the votes of a precinct record
PrecinctVotes(row) ==
    IF Strip(row.votes) = "" THEN [exc |-> "None", val |-> StrVal("N/A")]
    ELSE LET n == ParseInt(Strip(Replace(row.votes, ",", "")))
         IN  IF n.exc = "None" THEN [exc |-> "None", val |-> IntVal(n.val)]
             ELSE [exc |-> n.exc]

\* the record one pass of the loop of NVPrecinctLoader.load builds of a row
\* that is not skipped, or the exception it raises
PrecinctRecord(m, common, row) ==
    LET contest      == BuildContestKwargs(m, row)
        candidate    == BuildCandidateKwargs(row)
        jurisdiction == Strip(row.precinct)
        votes        == PrecinctVotes(row)
    IN  IF contest.exc # "None" THEN [exc |-> contest.exc]
        ELSE IF votes.exc # "None" THEN [exc |-> votes.exc]
        ELSE [exc |-> "None",
              val |-> [reporting_level |-> common.reporting_level,
                       office |-> contest.office,
                       district |-> contest.district,
                       primary_party |-> contest.primary_party,
                       party |-> contest.party,
                       full_name |-> candidate.full_name,
                       jurisdiction |-> jurisdiction,
                       ocd_id |-> m.ocd_id \o "/precinct:" \o ocd_type_id(jurisdiction),
                       votes |-> votes.val]]

(***************************************************************************)
(* NVCountyLoader.                                                         *)
(***************************************************************************)
\* NVCountyLoader._skip_row
CountySkipRow(row) == Upper(Strip(Split(row.office, ",")[1])) \notin target_offices

\* county votes with the blank test of the precinct loader
CountyVotesBlankNA(row) ==
    IF Strip(row.votes) = "" THEN [exc |-> "None", val |-> StrVal("N/A")]
    ELSE LET n == ParseInt(Strip(Replace(row.votes, ",", "")))
         IN  IF n.exc = "None" THEN [exc |-> "None", val |-> IntVal(n.val)]
             ELSE [exc |-> n.exc]

\* the votes of a county record
CountyVotes(row) ==
    LET n == ParseInt(Strip(Replace(row.votes, ",", "")))
    IN  IF n.exc = "None" THEN [exc |-> "None", val |-> IntVal(n.val)]
        ELSE [exc |-> n.exc]

\* the party of a county record
CountyParty(row) ==
    IF row.party # "" /\ row.party # "&nbsp;" THEN Some(Strip(row.party)) ELSE None

\* the record one pass of the loop of NVCountyLoader.load builds of a row
\* that is not skipped, or the exception it raises
CountyRecord(m, common, row) ==
    LET contest      == BuildContestKwargs(m, row)
        candidate    == BuildCandidateKwargs(row)
        jurisdiction == m.name
        votes        == CountyVotes(row)
    IN  IF contest.exc # "None" THEN [exc |-> contest.exc]
        ELSE IF votes.exc # "None" THEN [exc |-> votes.exc]
        ELSE [exc |-> "None",
              val |-> [reporting_level |-> common.reporting_level,
                       office |-> contest.office,
                       district |-> contest.district,
                       primary_party |-> contest.primary_party,
                       party |-> CountyParty(row),
                       full_name |-> candidate.full_name,
                       jurisdiction |-> jurisdiction,
                       ocd_id |-> m.ocd_id,
                       votes |-> votes.val]]

(***************************************************************************)
(* The state machine.                                                      *)
(*   pc        "start", then "run" once LoadResults.run chose the loader,  *)
(*             "load" inside the loop of load, "done" after the insert,    *)
(*             "aborted" when load raised, "unsupported" for NVXmlLoader,  *)
(*             and "call" when a method was called on its own              *)
(*   rows      the rows the reader has yielded so far                      *)
(*   skipped   what _skip_row returned for each of them                    *)
(*   results   the list load accumulates                                   *)
(*   inserted  the arguments of the calls of RawResult.objects.insert      *)
(*   error     the exception load raised, "None" when it did not           *)
(*   arg, ret  the argument of a method called on its own, and the record  *)
(*             of what it raised and returned                              *)
(***************************************************************************)
NoCall == [fn |-> "none"]

Init == /\ pc = "start"
        /\ mapping \in Mappings
        /\ loader = "none"
        /\ common_kwargs = [reporting_level |-> "none"]
        /\ rows = <<>>
        /\ skipped = <<>>
        /\ results = <<>>
        /\ inserted = <<>>
        /\ error = "None"
        /\ arg = NoCall
        /\ ret = NoCall

\* LoadResults.run: the choice of the loader
Run ==
    /\ pc = "start"
    /\ loader' = IF mapping.raw_url # "" THEN "NVXmlLoader"
                 ELSE IF Contains(mapping.pre_processed_url, "precinct") THEN "NVPrecinctLoader"
                 ELSE "NVCountyLoader"
    /\ pc' = IF mapping.raw_url # "" THEN "unsupported" ELSE "run"
    /\ UNCHANGED <<mapping, common_kwargs, rows, skipped, results, inserted, error, arg, ret>>

\* NVPrecinctLoader.load up to its loop
PrecinctLoadBegin ==
    /\ pc = "run" /\ loader = "NVPrecinctLoader"
    /\ common_kwargs' = [reporting_level |-> "precinct"]
    /\ results' = <<>>
    /\ pc' = "load"
    /\ UNCHANGED <<mapping, loader, rows, skipped, inserted, error, arg, ret>>

\* a pass of the loop that hands the rows built so far to insert when the
\* row raises
PrecinctLoadRowFlush(row) ==
    /\ pc = "load" /\ loader = "NVPrecinctLoader"
    /\ Len(rows) < MaxRows
    /\ rows' = Append(rows, row)
    /\ skipped' = Append(skipped, PrecinctSkipRow(row))
    /\ IF PrecinctSkipRow(row)
       THEN UNCHANGED <<pc, results, error, inserted>>
       ELSE LET rec == PrecinctRecord(mapping, common_kwargs, row)
            IN  IF rec.exc = "None"
                THEN /\ results' = Append(results, rec.val)
                     /\ UNCHANGED <<pc, error, inserted>>
                ELSE /\ pc' = "aborted"
                     /\ error' = rec.exc
                     /\ inserted' = Append(inserted, results)
                     /\ UNCHANGED results
    /\ UNCHANGED <<mapping, loader, common_kwargs, arg, ret>>

\* one pass of the loop of NVPrecinctLoader.load, the reader yielding row
PrecinctLoadRow(row) ==
    /\ pc = "load" /\ loader = "NVPrecinctLoader"
    /\ Len(rows) < MaxRows
    /\ rows' = Append(rows, row)
    /\ skipped' = Append(skipped, PrecinctSkipRow(row))
    /\ IF PrecinctSkipRow(row)
       THEN UNCHANGED <<pc, results, error>>
       ELSE LET rec == PrecinctRecord(mapping, common_kwargs, row)
            IN  IF rec.exc = "None"
                THEN /\ results' = Append(results, rec.val)
                     /\ UNCHANGED <<pc, error>>
                ELSE /\ pc' = "aborted"
                     /\ error' = rec.exc
                     /\ UNCHANGED results
    /\ UNCHANGED <<mapping, loader, common_kwargs, inserted, arg, ret>>

\* the end of NVPrecinctLoader.load, the reader being exhausted
PrecinctLoadInsert ==
    /\ pc = "load" /\ loader = "NVPrecinctLoader"
    /\ inserted' = Append(inserted, results)
    /\ pc' = "done"
    /\ UNCHANGED <<mapping, loader, common_kwargs, rows, skipped, results, error, arg, ret>>

\* NVCountyLoader.load up to its loop
CountyLoadBegin ==
    /\ pc = "run" /\ loader = "NVCountyLoader"
    /\ common_kwargs' = [reporting_level |-> "county"]
    /\ results' = <<>>
    /\ pc' = "load"
    /\ UNCHANGED <<mapping, loader, rows, skipped, inserted, error, arg, ret>>

\* a pass of the loop that puts the new record in front of the list
CountyLoadRowPrepend(row) ==
    /\ pc = "load" /\ loader = "NVCountyLoader"
    /\ Len(rows) < MaxRows
    /\ rows' = Append(rows, row)
    /\ skipped' = Append(skipped, CountySkipRow(row))
    /\ IF CountySkipRow(row)
       THEN UNCHANGED <<pc, results, error>>
       ELSE LET rec == CountyRecord(mapping, common_kwargs, row)
            IN  IF rec.exc = "None"
                THEN /\ results' = <<rec.val>> \o results
                     /\ UNCHANGED <<pc, error>>
                ELSE /\ pc' = "aborted"
                     /\ error' = rec.exc
                     /\ UNCHANGED results
    /\ UNCHANGED <<mapping, loader, common_kwargs, inserted, arg, ret>>

\* one pass of the loop of NVCountyLoader.load, the reader yielding row
CountyLoadRow(row) ==
    /\ pc = "load" /\ loader = "NVCountyLoader"
    /\ Len(rows) < MaxRows
    /\ rows' = Append(rows, row)
    /\ skipped' = Append(skipped, CountySkipRow(row))
    /\ IF CountySkipRow(row)
       THEN UNCHANGED <<pc, results, error>>
       ELSE LET rec == CountyRecord(mapping, common_kwargs, row)
            IN  IF rec.exc = "None"
                THEN /\ results' = Append(results, rec.val)
                     /\ UNCHANGED <<pc, error>>
                ELSE /\ pc' = "aborted"
                     /\ error' = rec.exc
                     /\ UNCHANGED results
    /\ UNCHANGED <<mapping, loader, common_kwargs, inserted, arg, ret>>

\* the end of NVCountyLoader.load, the reader being exhausted
CountyLoadInsert ==
    /\ pc = "load" /\ loader = "NVCountyLoader"
    /\ inserted' = Append(inserted, results)
    /\ pc' = "done"
    /\ UNCHANGED <<mapping, loader, common_kwargs, rows, skipped, results, error, arg, ret>>

\* _skip_row called on its own, on a loader of class l
CallSkipRow(l, row) ==
    /\ pc = "start"
    /\ pc' = "call"
    /\ arg' = [fn |-> "_skip_row", loader |-> l, row |-> row]
    /\ ret' = [fn |-> "_skip_row",
               val |-> [exc |-> "None",
                        skip |-> IF l = "NVPrecinctLoader" THEN PrecinctSkipRow(row)
                                 ELSE IF l = "NVCountyLoader" THEN CountySkipRow(row)
                                 ELSE BaseSkipRow(row)]]
    /\ UNCHANGED <<mapping, loader, common_kwargs, rows, skipped, results, inserted, error>>

\* _build_contest_kwargs called on its own, self.mapping being mapping
CallBuildContestKwargs(row) ==
    /\ pc = "start"
    /\ pc' = "call"
    /\ arg' = [fn |-> "_build_contest_kwargs", row |-> row]
    /\ ret' = [fn |-> "_build_contest_kwargs", val |-> BuildContestKwargs(mapping, row)]
    /\ UNCHANGED <<mapping, loader, common_kwargs, rows, skipped, results, inserted, error>>

Next ==
    \/ Run
    \/ PrecinctLoadBegin
    \/ \E row \in FileRows : PrecinctLoadRow(row)
    \/ PrecinctLoadInsert
    \/ CountyLoadBegin
    \/ \E row \in FileRows : CountyLoadRow(row)
    \/ CountyLoadInsert
    \/ \E l \in {"NVPrecinctLoader", "NVCountyLoader", "NVXmlLoader"}, row \in CallRows :
          CallSkipRow(l, row)
    \/ \E row \in CallRows : CallBuildContestKwargs(row)

Spec == Init /\ [][Next]_vars

(***************************************************************************)
(* Vocabulary of the properties.                                           *)
(***************************************************************************)
IsPrimary == Contains(mapping.election, "primary")

SkipLoaders == {"NVPrecinctLoader", "NVCountyLoader"}

Loading == loader \in SkipLoaders /\ Len(rows) >= 1

LastRow == rows[Len(rows)]

LastSkipped == skipped[Len(rows)]

LastResult == results[Len(results)]

\* the text of s before its first comma, all of s when it has none
BeforeFirstComma(s) ==
    LET at == {i \in 1..Len(s) : Char(s, i) = ","}
    IN  IF at = {} THEN s ELSE SubSeq(s, 1, (CHOOSE i \in at : \A j \in at : i <= j) - 1)

\* digits in groups separated by commas, as "1,234"
ThousandsForm(v) ==
    /\ Len(v) > 0
    /\ \A i \in 1..Len(v) : Char(v, i) = "," \/ IndexIn(Digits, Char(v, i)) > 0
    /\ IndexIn(Digits, Char(v, 1)) > 0 /\ IndexIn(Digits, Char(v, Len(v))) > 0

RECURSIVE CountOf(_)
\* the number a text in ThousandsForm writes
CountOf(v) ==
    IF v = "" THEN 0
    ELSE LET c == Char(v, Len(v))
             r == CountOf(SubSeq(v, 1, Len(v) - 1))
         IN  IF c = "," THEN r ELSE 10 * r + (IndexIn(Digits, c) - 1)

\* the rows among the first n read that _skip_row kept
KeptBefore(n) == {i \in 1..n : ~skipped[i]}

SkipOf(l, row) == IF l = "NVPrecinctLoader" THEN PrecinctSkipRow(row) ELSE CountySkipRow(row)

RecordOf(l, row) ==
    IF l = "NVPrecinctLoader" THEN PrecinctRecord(mapping, [reporting_level |-> "precinct"], row)
    ELSE CountyRecord(mapping, [reporting_level |-> "county"], row)

RECURSIVE ExpectedBatch(_, _)
\* one record for each row of rs that is not to be skipped, in the order of rs
ExpectedBatch(l, rs) ==
    IF rs = <<>> THEN <<>>
    ELSE IF SkipOf(l, Head(rs)) THEN ExpectedBatch(l, Tail(rs))
    ELSE <<RecordOf(l, Head(rs)).val>> \o ExpectedBatch(l, Tail(rs))

(***************************************************************************)
(* Properties.                                                             *)
(***************************************************************************)

\* C1: in a primary precinct load, a row whose office is "X (Y)" with X a
\* tracked office is not skipped and yields one record with office X,
\* primary_party and party Y, the trimmed candidate, the votes as an integer
\* and the trimmed precinct as jurisdiction.
PrimaryRowYieldsRecord ==
    (/\ loader = "NVPrecinctLoader" /\ IsPrimary /\ Len(rows) >= 1
     /\ ThousandsForm(LastRow.votes))
    => \A X \in target_offices, Y \in {"DEM", "REP"} :
          LastRow.office = X \o " (" \o Y \o ")"
          => /\ ~LastSkipped
             /\ Len(results) = Cardinality(KeptBefore(Len(rows)))
             /\ Len(results) >= 1
             /\ LastResult.office = X
             /\ LastResult.primary_party = Some(Y)
             /\ LastResult.party = Some(Y)
             /\ LastResult.full_name = Strip(LastRow.candidate)
             /\ LastResult.votes = IntVal(CountOf(LastRow.votes))
             /\ LastResult.jurisdiction = Strip(LastRow.precinct)

\* C2: in both loaders _skip_row is true exactly when the text of the office
\* before its first comma, trimmed and uppercased, is not in target_offices.
SkipRowIffNotTarget ==
    /\ (ret.fn = "_skip_row" /\ arg.loader \in SkipLoaders)
       => ret.val.skip = (Upper(Strip(BeforeFirstComma(arg.row.office))) \notin target_offices)
    /\ loader \in SkipLoaders
       => \A i \in 1..Len(rows) :
             skipped[i] = (Upper(Strip(BeforeFirstComma(rows[i].office))) \notin target_offices)

\* a call of _skip_row kept a row whose office has a comma, lower case
\* letters and leading whitespace
SkipRowKeptMixedCase ==
    /\ ret.fn = "_skip_row" /\ arg.loader \in SkipLoaders
    /\ ~ret.val.skip
    /\ Contains(arg.row.office, ",")
    /\ Upper(arg.row.office) # arg.row.office
    /\ Strip(arg.row.office) # arg.row.office

\* C3: in a primary election, of an office "X (Y)" with no DISTRICT token
\* _build_contest_kwargs returns office X and primary_party Y, both without
\* their surrounding whitespace (stated of the X that have no comma).
PrimaryOfficePartyTrimmed ==
    (ret.fn = "_build_contest_kwargs" /\ IsPrimary)
    => LET o == arg.row.office
           i == Find(o, "(")
       IN  (/\ i > 2 /\ Char(o, i - 1) = " " /\ Char(o, Len(o)) = ")"
            /\ ~Contains(SubSeq(o, i + 1, Len(o) - 1), "(")
            /\ ~Contains(SubSeq(o, i + 1, Len(o) - 1), ")")
            /\ ~Contains(SubSeq(o, 1, i - 2), ",")
            /\ ~Contains(Upper(o), "DISTRICT"))
           => /\ ret.val.exc = "None"
              /\ ret.val.office = Strip(SubSeq(o, 1, i - 2))
              /\ ret.val.primary_party = Some(Strip(SubSeq(o, i + 1, Len(o) - 1)))

\* C4: in another election, of an office with the DISTRICT token
\* _build_contest_kwargs returns as office the trimmed text before the first
\* ", " and as district all of the trimmed text after that first ", ".
GeneralSplitsAtFirstComma ==
    (ret.fn = "_build_contest_kwargs" /\ ~IsPrimary)
    => LET o == arg.row.office
           i == Find(o, ", ")
       IN  (Contains(Upper(o), "DISTRICT") /\ i > 0)
           => /\ ret.val.exc = "None"
              /\ ret.val.office = Strip(SubSeq(o, 1, i - 1))
              /\ ret.val.district = Some(Strip(SubSeq(o, i + 2, Len(o))))

\* C5: of a row that is not skipped and whose office parses, votes written
\* with thousands separators become the integer at both levels; blank votes
\* become 'N/A' at precinct level; at county level blank votes raise and no
\* record is built of the row.
VotesByReportingLevel ==
    (Loading /\ ~LastSkipped)
    => LET v  == LastRow.votes
           ok == BuildContestKwargs(mapping, LastRow).exc = "None"
       IN  /\ (ThousandsForm(v) /\ ok)
              => /\ error = "None"
                 /\ Len(results) = Cardinality(KeptBefore(Len(rows)))
                 /\ LastResult.votes.kind = "int"
                 /\ LastResult.votes.val = CountOf(v)
           /\ (loader = "NVPrecinctLoader" /\ Strip(v) = "" /\ ok)
              => /\ error = "None"
                 /\ Len(results) = Cardinality(KeptBefore(Len(rows)))
                 /\ LastResult.votes.kind = "str"
                 /\ LastResult.votes.str = "N/A"
           /\ (loader = "NVCountyLoader" /\ Strip(v) = "")
              => /\ pc = "aborted"
                 /\ ok => error = "ValueError"
                 /\ Len(results) = Cardinality(KeptBefore(Len(rows) - 1))
                 /\ inserted = <<>>

\* the county load of another election stopped at the blank votes of a
\* STATE SENATE, DISTRICT 5 row
CountyBlankVotesRaised ==
    /\ loader = "NVCountyLoader" /\ ~IsPrimary /\ Len(rows) >= 1
    /\ LastRow.office = "STATE SENATE, DISTRICT 5" /\ LastRow.votes = ""
    /\ pc = "aborted" /\ error = "ValueError"

\* C6: the votes of every record of the batch are a non-negative integer or
\* 'N/A'.
VotesNonNegativeOrNA ==
    \A i \in 1..Len(results) :
        \/ results[i].votes.kind = "int" /\ results[i].votes.val >= 0
        \/ results[i].votes.kind = "str" /\ results[i].votes.str = "N/A"

\* C7: insert is called at most once, with the whole list and after the last
\* row; once a row raised it is never called.
InsertOnceAfterAllRows ==
    [][ /\ Len(inserted') <= 1
        /\ inserted' # inserted
           => (error' = "None" /\ rows' = rows /\ inserted' = <<results>>)
        /\ inserted # <<>> => (rows' = rows /\ results' = results /\ inserted' = inserted)
        /\ error' # "None" => inserted' = <<>> ]_vars

\* a load stopped at a row that raised, after it had built a record
AbortedWithRecords ==
    /\ pc = "aborted" /\ error # "None"
    /\ Len(results) >= 1
    /\ inserted = <<>>

\* C8: when no row raised, the batch handed to insert has one record for
\* each row _skip_row kept, in the order of the rows, and none for the
\* others.
BatchIsKeptRowsInOrder ==
    pc = "done"
    => /\ Len(inserted) = 1
       /\ Len(inserted[1]) = Cardinality({i \in 1..Len(rows) : ~SkipOf(loader, rows[i])})
       /\ inserted[1] = ExpectedBatch(loader, rows)

\* a load ended with a batch of two different records
InsertedTwoRecords ==
    /\ pc = "done"
    /\ Len(inserted) = 1 /\ Len(inserted[1]) = 2
    /\ inserted[1][1] # inserted[1][2]

\* C9: the office of every record, uppercased, is in target_offices.
RecordOfficeIsTarget ==
    \A i \in 1..Len(results) : Upper(results[i].office) \in target_offices

\* C10: in a primary election, of an office with a district segment, with or
\* without a comma before it, _build_contest_kwargs returns the trimmed
\* district segment before " (", the office without it and the party between
\* the parentheses.
PrimaryDistrictBothForms ==
    (ret.fn = "_build_contest_kwargs" /\ IsPrimary)
    => LET o == arg.row.office
           d == Find(Upper(o), "DISTRICT")
           p == Find(o, " (")
           q == Find(o, ")")
       IN  (/\ d > 2 /\ p > d /\ q > p + 2
            /\ Char(o, d - 1) = " "
            /\ Strip(SubSeq(o, 1, d - 1)) # ""
            /\ ~Contains(SubSeq(o, d, p - 1), ","))
           => /\ ret.val.exc = "None"
              /\ ret.val.district = Some(Strip(SubSeq(o, d, p - 1)))
              /\ ret.val.office = Strip(BeforeFirstComma(SubSeq(o, 1, d - 1)))
              /\ ret.val.primary_party = Some(SubSeq(o, p + 2, q - 1))
====
